---- MODULE Spec2Model ----
(***************************************************************************)
(* Model of src/geminiService.ts: the retrying executor                    *)
(* callGeminiWithRetry and the four prompt operations built on it          *)
(* (getAiFeedback, translateText, getAiSummary, checkAnswerConsistency).   *)
(*                                                                         *)
(* Each invocation is a process p.  An async function runs synchronously   *)
(* up to its first await, so an invocation is one action up to the point   *)
(* where it awaits the upstream call; the continuation after the upstream  *)
(* promise settles and the continuation after the backoff timer fires are  *)
(* the other actions.                                                      *)
(***************************************************************************)
EXTENDS Integers, Sequences, FiniteSets, TLC

VARIABLES env, st

vars == <<env, st>>

(***************************************************************************)
(* Bounds of the model.                                                    *)
(***************************************************************************)
NumProcs == 2
MaxRetriesBound == 3
MaxInitialDelay == 2

Procs == 1..NumProcs

(***************************************************************************)
(* Program constants: the default retry policy.                            *)
(***************************************************************************)
DefaultMaxRetries == 5
DefaultInitialDelay == 5000

(***************************************************************************)
(* JavaScript values.  A string is a sequence of characters; a piece of    *)
(* text none of whose characters matter is written as one element.         *)
(***************************************************************************)
Undefined == [t |-> "undefined"]
Null == [t |-> "null"]
Str(s) == [t |-> "string", s |-> s]
Bool(b) == [t |-> "boolean", b |-> b]
Obj(props) == [t |-> "object", props |-> props]
Response(text) == [t |-> "response", text |-> text]
TypeErrorOf(why) == [t |-> "TypeError", why |-> why]
SyntaxErrorOf(why) == [t |-> "SyntaxError", why |-> why]

\* !v
Falsy(v) ==
  \/ v.t \in {"undefined", "null"}
  \/ v.t = "string" /\ v.s = <<>>
  \/ v.t = "boolean" /\ ~v.b

\* String.prototype.includes
Includes(s, sub) ==
  \E k \in 0..(Len(s) - Len(sub)) : SubSeq(s, k + 1, k + Len(sub)) = sub

DigitChar == <<"0", "1", "2", "3", "4", "5", "6", "7", "8", "9">>

RECURSIVE Digits(_)
Digits(n) ==
  IF n < 10 THEN <<DigitChar[n + 1]>>
  ELSE Digits(n \div 10) \o <<DigitChar[(n % 10) + 1]>>

S429 == <<"4", "2", "9">>
SRESOURCE_EXHAUSTED ==
  <<"R", "E", "S", "O", "U", "R", "C", "E", "_",
    "E", "X", "H", "A", "U", "S", "T", "E", "D">>
Squota == <<"q", "u", "o", "t", "a">>

(***************************************************************************)
(* What the upstream call can reject with.  callGeminiWithRetry takes      *)
(* apiCall: () => Promise<any> and catches error: any, so a rejection is   *)
(* any JavaScript value.  An object carries the attempt that produced it   *)
(* (ref) as its identity; an absent property is <<>>, a present one <<x>>. *)
(* circular: the object reaches itself through its enumerable properties.  *)
(***************************************************************************)
ErrObj(status, code, message, details, circular) ==
  [t |-> "error", ref |-> 0, status |-> status, code |-> code,
   message |-> message, details |-> details, circular |-> circular]

ErrStatus429 == ErrObj(<<429>>, <<>>, <<<<"Too Many Requests">>>>, <<>>, FALSE)
ErrCode429 == ErrObj(<<>>, <<429>>, <<>>, <<>>, FALSE)
ErrMsg429 == ErrObj(<<>>, <<>>, <<<<"got status: ">> \o S429>>, <<>>, FALSE)
ErrMsgExhausted ==
  ErrObj(<<>>, <<>>, <<<<"status: ">> \o SRESOURCE_EXHAUSTED>>, <<>>, FALSE)
ErrMsgQuota ==
  ErrObj(<<400>>, <<>>, <<<<"You exceeded your current ">> \o Squota>>, <<>>, FALSE)
ErrNested429 ==
  ErrObj(<<>>, <<>>, <<>>, <<<<"{\"error\":{\"code\":">> \o S429 \o <<"}}">>>>, FALSE)
ErrCircular429 == ErrObj(<<429>>, <<>>, <<>>, <<>>, TRUE)
ErrServer500 == ErrObj(<<500>>, <<>>, <<<<"Internal error">>>>, <<>>, FALSE)
ErrMsgQuotaCapital ==
  ErrObj(<<>>, <<>>, <<<<"Q", "u", "o", "t", "a", " exceeded">>>>, <<>>, FALSE)
ErrCircular == ErrObj(<<503>>, <<>>, <<<<"fetch failed">>>>, <<>>, TRUE)
ErrStringQuota == Str(<<"daily ">> \o Squota \o <<" used up">>)

Rejections ==
  {ErrStatus429, ErrCode429, ErrMsg429, ErrMsgExhausted, ErrMsgQuota,
   ErrNested429, ErrCircular429, ErrStringQuota,
   ErrServer500, ErrMsgQuotaCapital, Null,
   ErrCircular, Undefined}

\* error?.prop
Prop(error, prop) == IF error.t = "error" THEN error[prop] ELSE <<>>

\* parts joined by commas.
RECURSIVE Join(_)
Join(parts) ==
  IF parts = <<>> THEN <<>>
  ELSE IF Len(parts) = 1 THEN parts[1]
  ELSE parts[1] \o <<",">> \o Join(Tail(parts))

\* The serialized enumerable properties of an error object, in order.
Properties(v) ==
  (IF v.status = <<>> THEN <<>> ELSE <<<<"\"status\":">> \o Digits(v.status[1])>>)
  \o (IF v.code = <<>> THEN <<>> ELSE <<<<"\"code\":">> \o Digits(v.code[1])>>)
  \o (IF v.message = <<>> THEN <<>>
      ELSE <<<<"\"message\":\"">> \o v.message[1] \o <<"\"">>>>)
  \o (IF v.details = <<>> THEN <<>> ELSE <<<<"\"details\":">> \o v.details[1]>>)

\* JSON.stringify(error): a string, undefined (for undefined), or the
\* TypeError it throws (a circular structure).
JSONStringify(v) ==
  CASE v.t = "undefined" -> Undefined
    [] v.t = "null" -> Str(<<"n", "u", "l", "l">>)
    [] v.t = "string" -> Str(<<"\"">> \o v.s \o <<"\"">>)
    [] v.t = "error" ->
         IF v.circular THEN TypeErrorOf("Converting circular structure to JSON")
         ELSE Str(<<"{">> \o Join(Properties(v)) \o <<"}">>)

\* error?.message?.includes(needle)
MessageIncludes(error, needle) ==
  /\ Prop(error, "message") # <<>>
  /\ Includes(Prop(error, "message")[1], needle)

\* The disjuncts of isRateLimit that read the error's own fields (|| stops
\* at the first true one, so JSON.stringify runs only when all are false).
FieldsSayRateLimit(error) ==
  \/ Prop(error, "status") = <<429>>
  \/ Prop(error, "code") = <<429>>
  \/ MessageIncludes(error, S429)
  \/ MessageIncludes(error, SRESOURCE_EXHAUSTED)
  \/ MessageIncludes(error, Squota)

\* Computing isRateLimit throws: JSON.stringify(error) throws, or returns
\* undefined and .includes is read from undefined.
ClassifyThrows(error) ==
  /\ ~FieldsSayRateLimit(error)
  /\ JSONStringify(error).t # "string"

\* The TypeError the computation of isRateLimit throws.
ClassifyError(error) ==
  IF JSONStringify(error).t = "TypeError" THEN JSONStringify(error)
  ELSE TypeErrorOf("Cannot read properties of undefined (reading 'includes')")

SerializedSaysRateLimit(error) ==
  /\ JSONStringify(error).t = "string"
  /\ \/ Includes(JSONStringify(error).s, S429)
     \/ Includes(JSONStringify(error).s, SRESOURCE_EXHAUSTED)
     \/ Includes(JSONStringify(error).s, Squota)

isRateLimit(error) ==
  FieldsSayRateLimit(error) \/ SerializedSaysRateLimit(error)

\* Mutant: the exponent is the attempt number instead of the attempt index.
DelayFromOne(initialDelay, i) == initialDelay * (2 ^ (i + 1))

\* initialDelay * Math.pow(2, i)
Delay(initialDelay, i) == initialDelay * (2 ^ i)

(***************************************************************************)
(* What the upstream call can resolve with: a response whose text is a     *)
(* string or is missing.  A text is a sequence of tokens; JSON.parse is    *)
(* modelled on the tokens (scalars and objects of scalars).                *)
(***************************************************************************)
TextContradiction ==
  <<"{", "\"consistent\"", ":", "false", ",",
    "\"reason\"", ":", "\"dates differ\"", "}">>
TextConsistent == <<"{", "\"consistent\"", ":", "true", "}">>
TextProse == <<"The answers agree.">>
TextTruncated == <<"{", "\"consistent\"", ":", "false", ",">>
TextNoConsistent == <<"{", "\"reason\"", ":", "\"dates differ\"", "}">>
TextWrongType == <<"{", "\"consistent\"", ":", "\"no\"", "}">>
TextNull == <<"null">>

Responses ==
  {Response(Str(TextContradiction)), Response(Str(TextConsistent)),
   Response(Str(TextProse)), Response(Str(TextTruncated)),
   Response(Str(TextNoConsistent)), Response(Str(TextWrongType)),
   Response(Str(TextNull)), Response(Undefined)}

\* The string literals of the texts, by token.
StringLiterals ==
  ("\"consistent\"" :> "consistent") @@ ("\"reason\"" :> "reason")
  @@ ("\"dates differ\"" :> "dates differ") @@ ("\"no\"" :> "no")

IsScalarToken(tok) ==
  tok \in {"true", "false", "null"} \/ tok \in DOMAIN StringLiterals

ScalarOf(tok) ==
  CASE tok = "true" -> Bool(TRUE)
    [] tok = "false" -> Bool(FALSE)
    [] tok = "null" -> Null
    [] OTHER -> Str(<<StringLiterals[tok]>>)

\* Sets property key of the property list (a later duplicate key wins).
SetProp(props, key, val) ==
  IF \E k \in 1..Len(props) : props[k][1] = key
  THEN [k \in 1..Len(props) |->
          IF props[k][1] = key THEN <<key, val>> ELSE props[k]]
  ELSE Append(props, <<key, val>>)

\* The members of an object, toks being what follows "{" or ",":
\* key ":" scalar, then "}" at the end or "," and more members.
RECURSIVE ParseMembers(_, _)
ParseMembers(toks, props) ==
  IF /\ Len(toks) >= 4
     /\ toks[1] \in DOMAIN StringLiterals
     /\ toks[2] = ":"
     /\ IsScalarToken(toks[3])
  THEN LET next == SetProp(props, StringLiterals[toks[1]], ScalarOf(toks[3]))
       IN IF toks[4] = "}" /\ Len(toks) = 4 THEN Obj(next)
          ELSE IF toks[4] = "," THEN ParseMembers(SubSeq(toks, 5, Len(toks)), next)
          ELSE SyntaxErrorOf("Unexpected token")
  ELSE SyntaxErrorOf("Unexpected token")

\* JSON.parse(text): the value, or the SyntaxError it throws.  An undefined
\* argument is converted to the string "undefined", which is no JSON.
JSONParse(text) ==
  IF text.t # "string" THEN SyntaxErrorOf("\"undefined\" is not valid JSON")
  ELSE IF Len(text.s) = 1 /\ IsScalarToken(text.s[1]) THEN ScalarOf(text.s[1])
  ELSE IF text.s = <<"{", "}">> THEN Obj(<<>>)
  ELSE IF Len(text.s) >= 1 /\ text.s[1] = "{"
       THEN ParseMembers(SubSeq(text.s, 2, Len(text.s)), <<>>)
  ELSE SyntaxErrorOf("Unexpected token")

\* obj.key of a parsed value: <<>> when absent, <<v>> when present.
Member(v, key) ==
  IF v.t # "object" THEN <<>>
  ELSE IF \E k \in 1..Len(v.props) : v.props[k][1] = key
       THEN <<(CHOOSE pr \in {v.props[k] : k \in 1..Len(v.props)} : pr[1] = key)[2]>>
  ELSE <<>>

(***************************************************************************)
(* The fixed return values of the operations (the bilingual texts are      *)
(* written by their Vietnamese half without diacritics).                   *)
(***************************************************************************)
FeedbackKeyMissing ==
  Str(<<"API Key chua duoc cau hinh. Vui long dat VITE_GEMINI_API_KEY trong .env.local">>)
FeedbackUnavailable ==
  Str(<<"AI tam thoi khong phan hoi. Vui long thu lai sau 1 phut.">>)
SummaryKeyMissing == Str(<<"API Key chua duoc cau hinh.">>)
ConsistentDefault == Obj(<<<<"consistent", Bool(TRUE)>>>>)

(***************************************************************************)
(* State.  env is import.meta.env.VITE_GEMINI_API_KEY, process-wide and    *)
(* read-only.  st[p] is invocation p: the operation invoked (op), where it *)
(* is suspended (pc: idle, call = awaiting apiCall(), sleep = awaiting     *)
(* sleep(delay), done), its locals (apiKey, i, maxRetries, initialDelay,   *)
(* lastError), how callGeminiWithRetry ended (execRes) and how the         *)
(* invocation ended (res), what its last upstream call settled with (up)   *)
(* and the history of what it did (log).  For getAiSummary: the type       *)
(* argument as passed (typeArg), the parameters type and targetLangName    *)
(* and the instruction it built.                                           *)
(***************************************************************************)
Credentials == {Undefined, Str(<<>>), Str(<<"AIza-key">>)}

Pending == [how |-> "pending", val |-> Undefined]
Returned(v) == [how |-> "returned", val |-> v]
Threw(e) == [how |-> "threw", val |-> e]

Ev(ev, n, k) == [ev |-> ev, n |-> n, k |-> k]

Idle ==
  [op |-> "none", pc |-> "idle", apiKey |-> Undefined, i |-> 0,
   maxRetries |-> 0, initialDelay |-> 0, lastError |-> Undefined,
   execRes |-> Pending, res |-> Pending, up |-> Undefined, log |-> <<>>,
   typeArg |-> Undefined, type |-> Undefined, targetLangName |-> Undefined,
   instruction |-> Undefined]

Logged(s, e) == [s EXCEPT !.log = Append(@, e)]

\* The invocation ends: the async function's promise settles.
Finish(s, r) == [s EXCEPT !.pc = "done", !.res = r]

\* callGeminiWithRetry ends by return (line 22) or by throw (lines 45, 48).
ExecReturn(s, v) ==
  [Logged(s, Ev("return", s.i, 0)) EXCEPT !.execRes = Returned(v)]
ExecThrow(s, e) ==
  [Logged(s, Ev("throw", s.i, 0)) EXCEPT !.execRes = Threw(e)]

\* Mutant: the loop tests after the first attempt (do ... while).
AttemptAtLeastOnce(s) ==
  IF s.i < s.maxRetries \/ s.i = 0
  THEN [Logged(s, Ev("call", s.i, 0)) EXCEPT !.pc = "call"]
  ELSE ExecThrow(s, s.lastError)

\* The loop test and the call of one attempt; past the loop, throw lastError.
Attempt(s) ==
  IF s.i < s.maxRetries
  THEN [Logged(s, Ev("call", s.i, 0)) EXCEPT !.pc = "call"]
  ELSE ExecThrow(s, s.lastError)

\* Entry of callGeminiWithRetry(apiCall, maxRetries, initialDelay).
callGeminiWithRetry(s, maxRetries, initialDelay) ==
  Attempt([Logged(s, Ev("enter", maxRetries, initialDelay)) EXCEPT
             !.maxRetries = maxRetries, !.initialDelay = initialDelay,
             !.lastError = Undefined, !.i = 0, !.execRes = Pending])

\* Mutant: the final attempt is retried too (i < maxRetries).
ShouldRetryOnLast(rateLimit, i, maxRetries) == rateLimit /\ i < maxRetries

\* if (isRateLimit && i < maxRetries - 1)
ShouldRetry(rateLimit, i, maxRetries) == rateLimit /\ i < maxRetries - 1

\* Mutant: sleep(delay) is not awaited, the next attempt starts at once.
CatchNoAwait(s, error) ==
  LET s1 == [s EXCEPT !.lastError = error]
      delay == Delay(s.initialDelay, s.i)
  IN IF ClassifyThrows(error) THEN ExecThrow(s1, ClassifyError(error))
     ELSE IF ShouldRetry(isRateLimit(error), s.i, s.maxRetries)
          THEN Attempt([s1 EXCEPT !.i = @ + 1,
                                  !.log = @ \o <<Ev("warn", delay, s.i + 1),
                                                 Ev("sleep", delay, s.i)>>])
     ELSE ExecThrow(s1, error)

\* Mutant: the warning is logged before the test, for every failure.
CatchWarnsFirst(s, error) ==
  LET delay == Delay(s.initialDelay, s.i)
      s1 == [Logged(s, Ev("warn", delay, s.i + 1)) EXCEPT !.lastError = error]
  IN IF ClassifyThrows(error) THEN ExecThrow(s1, ClassifyError(error))
     ELSE IF ShouldRetry(isRateLimit(error), s.i, s.maxRetries)
          THEN [s1 EXCEPT !.pc = "sleep",
                          !.log = Append(@, Ev("sleep", delay, s.i))]
     ELSE ExecThrow(s1, error)

\* The catch block of an attempt.
Catch(s, error) ==
  LET s1 == [s EXCEPT !.lastError = error]
      delay == Delay(s.initialDelay, s.i)
  IN IF ClassifyThrows(error) THEN ExecThrow(s1, ClassifyError(error))
     ELSE IF ShouldRetry(isRateLimit(error), s.i, s.maxRetries)
          THEN [s1 EXCEPT !.pc = "sleep",
                          !.log = @ \o <<Ev("warn", delay, s.i + 1),
                                         Ev("sleep", delay, s.i)>>]
     ELSE ExecThrow(s1, error)

\* Mutant: the value is awaited but not returned, and the loop goes on.
ResolvedNotReturned(s, value) == Attempt([s EXCEPT !.i = @ + 1])

\* return await apiCall() when the call resolved.
Resolved(s, value) == ExecReturn(s, value)

\* sleep(delay) is over: continue, i++ and the next attempt.
AfterSleep(s) == Attempt([Logged(s, Ev("wake", s.i, 0)) EXCEPT !.i = @ + 1])

(***************************************************************************)
(* The operations' handling of what callGeminiWithRetry did (their         *)
(* try/catch), and their early return on a missing key.                    *)
(***************************************************************************)
ConsoleError(s) == Logged(s, Ev("console.error", 0, 0))

\* Mutant: the failure value of translateText (null) instead of the text.
FeedbackThenNull(s) ==
  IF s.execRes.how = "returned" THEN Finish(s, Returned(s.execRes.val.text))
  ELSE Finish(ConsoleError(s), Returned(Null))

FeedbackThen(s) ==
  IF s.execRes.how = "returned" THEN Finish(s, Returned(s.execRes.val.text))
  ELSE Finish(ConsoleError(s), Returned(FeedbackUnavailable))

\* Mutant: a placeholder text instead of null on failure.
TranslateThenPlaceholder(s) ==
  IF s.execRes.how = "returned" THEN Finish(s, Returned(s.execRes.val.text))
  ELSE Finish(ConsoleError(s), Returned(FeedbackUnavailable))

TranslateThen(s) ==
  IF s.execRes.how = "returned" THEN Finish(s, Returned(s.execRes.val.text))
  ELSE Finish(ConsoleError(s), Returned(Null))

\* Mutant: the missing-key text instead of null on failure.
SummaryThenText(s) ==
  IF s.execRes.how = "returned" THEN Finish(s, Returned(s.execRes.val.text))
  ELSE Finish(ConsoleError(s), Returned(SummaryKeyMissing))

SummaryThen(s) ==
  IF s.execRes.how = "returned" THEN Finish(s, Returned(s.execRes.val.text))
  ELSE Finish(ConsoleError(s), Returned(Null))

\* Mutant: JSON.parse outside the try block, its SyntaxError is not caught.
ConsistencyThenParseOutside(s) ==
  IF s.execRes.how = "returned"
  THEN IF JSONParse(s.execRes.val.text).t = "SyntaxError"
       THEN Finish(s, Threw(JSONParse(s.execRes.val.text)))
       ELSE Finish(s, Returned(JSONParse(s.execRes.val.text)))
  ELSE Finish(ConsoleError(s), Returned(ConsistentDefault))

\* Mutant: the response is ignored and the default returned.
ConsistencyThenDefault(s) ==
  Finish(s, Returned(ConsistentDefault))

ConsistencyThen(s) ==
  IF /\ s.execRes.how = "returned"
     /\ JSONParse(s.execRes.val.text).t # "SyntaxError"
  THEN Finish(s, Returned(JSONParse(s.execRes.val.text)))
  ELSE Finish(ConsoleError(s), Returned(ConsistentDefault))

\* A direct caller of callGeminiWithRetry receives what it did.
DirectThen(s) == Finish(s, s.execRes)

\* Once callGeminiWithRetry has ended, its caller goes on.
Continue(s) ==
  IF s.execRes.how = "pending" THEN s
  ELSE CASE s.op = "getAiFeedback" -> FeedbackThen(s)
         [] s.op = "translateText" -> TranslateThen(s)
         [] s.op = "getAiSummary" -> SummaryThen(s)
         [] s.op = "checkAnswerConsistency" -> ConsistencyThen(s)
         [] s.op = "callGeminiWithRetry" -> DirectThen(s)

(***************************************************************************)
(* getAiSummary's instruction.  type is the argument as passed (undefined  *)
(* when left out); the parameter's default value is 'concise'.             *)
(***************************************************************************)
Concise == Str(<<"concise">>)
Detailed == Str(<<"detailed">>)
Keypoints == Str(<<"keypoints">>)
SummaryTypes == {Undefined, Concise, Detailed, Keypoints}
TargetLangNames == {Str(<<"Traditional Chinese">>), Str(<<"Vietnamese">>)}

\* type: SummaryType = 'concise'
TypeOrDefault(type) == IF type = Undefined THEN Concise ELSE type

\* Mutant: 'keypoints' is not told apart from 'detailed'.
InstructionTwoVariants(type, targetLangName) ==
  IF type = Concise
  THEN Str(<<"You are a concise summarization tool. Summarize the following content in under 30 words. You MUST respond entirely in ">>
           \o targetLangName.s \o <<".">>)
  ELSE Str(<<"You are a detailed summarization tool. Summarize the following content in about 100 words with details. You MUST respond entirely in ">>
           \o targetLangName.s \o <<".">>)

\* let instruction = ''; if (type === 'concise') ... else if ...
Instruction(type, targetLangName) ==
  IF type = Concise
  THEN Str(<<"You are a concise summarization tool. Summarize the following content in under 30 words. You MUST respond entirely in ">>
           \o targetLangName.s \o <<".">>)
  ELSE IF type = Detailed
  THEN Str(<<"You are a detailed summarization tool. Summarize the following content in about 100 words with details. You MUST respond entirely in ">>
           \o targetLangName.s \o <<".">>)
  ELSE IF type = Keypoints
  THEN Str(<<"You are a key points extraction tool. List the most important 3 to 5 key points. You MUST respond entirely in ">>
           \o targetLangName.s \o <<".">>)
  ELSE Str(<<>>)

\* What an operation builds between the key check and the call.
Prepared(s) ==
  IF s.op = "getAiSummary"
  THEN [s EXCEPT !.instruction = Instruction(s.type, s.targetLangName)]
  ELSE s

\* Mutant: no check of the key before the call.
OperationUnchecked(s, name, missing) ==
  Continue(callGeminiWithRetry(Prepared([s EXCEPT !.op = name, !.apiKey = env]),
                               DefaultMaxRetries, DefaultInitialDelay))

\* Mutant: the operation passes a policy of its own, six attempts.
OperationSixAttempts(s, name, missing) ==
  LET s0 == [s EXCEPT !.op = name, !.apiKey = env]
  IN IF Falsy(s0.apiKey) THEN Finish(ConsoleError(s0), Returned(missing))
     ELSE Continue(callGeminiWithRetry(Prepared(s0), 6, DefaultInitialDelay))

\* Mutant: a failure is remembered module-wide; once an operation has
\* missed its key or failed, the operations return their missing-key value.
OperationAfterFailure(s, name, missing) ==
  LET s0 == [s EXCEPT !.op = name, !.apiKey = env]
      failed == \E q \in Procs :
                  /\ st[q].pc = "done"
                  /\ st[q].op # "callGeminiWithRetry"
                  /\ Falsy(st[q].apiKey) \/ st[q].execRes.how = "threw"
  IN IF Falsy(s0.apiKey) \/ failed
     THEN Finish(ConsoleError(s0), Returned(missing))
     ELSE Continue(callGeminiWithRetry(Prepared(s0),
                                       DefaultMaxRetries, DefaultInitialDelay))

\* An operation from its entry to its first await or its early return.
Operation(s, name, missing) ==
  LET s0 == [s EXCEPT !.op = name, !.apiKey = env]
  IN IF Falsy(s0.apiKey) THEN Finish(ConsoleError(s0), Returned(missing))
     ELSE Continue(callGeminiWithRetry(Prepared(s0),
                                       DefaultMaxRetries, DefaultInitialDelay))

(***************************************************************************)
(* Actions.                                                                *)
(***************************************************************************)
getAiFeedback(p) ==
  /\ st[p].pc = "idle"
  /\ st' = [st EXCEPT ![p] = Operation(@, "getAiFeedback", FeedbackKeyMissing)]
  /\ UNCHANGED env

translateText(p) ==
  /\ st[p].pc = "idle"
  /\ st' = [st EXCEPT ![p] = Operation(@, "translateText", Null)]
  /\ UNCHANGED env

\* getAiSummary(answer, targetLangName, type), type possibly left out.
getAiSummary(p, types, langs) ==
  /\ st[p].pc = "idle"
  /\ \E type \in types, targetLangName \in langs :
       st' = [st EXCEPT ![p] =
                Operation([@ EXCEPT !.typeArg = type,
                                    !.type = TypeOrDefault(type),
                                    !.targetLangName = targetLangName],
                          "getAiSummary", SummaryKeyMissing)]
  /\ UNCHANGED env

checkAnswerConsistency(p) ==
  /\ st[p].pc = "idle"
  /\ st' = [st EXCEPT ![p] =
              Operation(@, "checkAnswerConsistency", ConsistentDefault)]
  /\ UNCHANGED env

\* callGeminiWithRetry called on its own with a retry policy.
CallExecutor(p, retries, delays) ==
  /\ st[p].pc = "idle"
  /\ \E maxRetries \in retries, initialDelay \in delays :
       st' = [st EXCEPT ![p] =
                Continue(callGeminiWithRetry([@ EXCEPT !.op = "callGeminiWithRetry"],
                                             maxRetries, initialDelay))]
  /\ UNCHANGED env

\* The object an attempt's rejection carries, with its identity.
Thrown(error, attempt) ==
  IF error.t = "error" THEN [error EXCEPT !.ref = attempt + 1] ELSE error

\* The rejections that carry a rate limit or quota signature (429,
\* RESOURCE_EXHAUSTED or quota in status, code, message or serialized form).
RateLimitErrors ==
  {ErrStatus429, ErrCode429, ErrMsg429, ErrMsgExhausted, ErrMsgQuota,
   ErrNested429, ErrCircular429, ErrStringQuota}

\* The upstream call of attempt s.i settles: fulfilled with value, or
\* rejected with error (k = 1 for a rate limit error).
Fulfilled(s, value) ==
  [Logged(s, Ev("resolve", s.i, 0)) EXCEPT !.up = value]
Rejected(s, error) ==
  [Logged(s, Ev("reject", s.i, IF error \in RateLimitErrors THEN 1 ELSE 0))
     EXCEPT !.up = Thrown(error, s.i)]

UpstreamResolves(p, values) ==
  /\ st[p].pc = "call"
  /\ \E value \in values :
       st' = [st EXCEPT ![p] = Continue(Resolved(Fulfilled(@, value), value))]
  /\ UNCHANGED env

UpstreamRejects(p, errors) ==
  /\ st[p].pc = "call"
  /\ \E error \in errors :
       st' = [st EXCEPT ![p] =
                Continue(Catch(Rejected(@, error), Thrown(error, @.i)))]
  /\ UNCHANGED env

\* Mutant: the promise of sleep(ms) is never resolved.
TimerNeverResolves(p) ==
  /\ st[p].pc = "sleep"
  /\ UNCHANGED vars

TimerFires(p) ==
  /\ st[p].pc = "sleep"
  /\ st' = [st EXCEPT ![p] = Continue(AfterSleep(@))]
  /\ UNCHANGED env

Init ==
  /\ env \in Credentials
  /\ st = [p \in Procs |-> Idle]

\* One invocation at a time is followed.
Solo == {1}
RetryCounts == (0 - 1)..MaxRetriesBound
InitialDelays == 1..MaxInitialDelay

Next ==
  \E p \in Solo :
    \/ getAiFeedback(p)
    \/ translateText(p)
    \/ getAiSummary(p, SummaryTypes, TargetLangNames)
    \/ checkAnswerConsistency(p)
    \/ CallExecutor(p, RetryCounts, InitialDelays)
    \/ UpstreamResolves(p, Responses)
    \/ UpstreamRejects(p, Rejections)
    \/ TimerFires(p)

Spec == Init /\ [][Next]_vars

(***************************************************************************)
(* Reading the history of an invocation.                                   *)
(***************************************************************************)
Events(s, names) == SelectSeq(s.log, LAMBDA e : e.ev \in names)
Calls(s) == Len(Events(s, {"call"}))
Sleeps(s) == [k \in 1..Len(Events(s, {"sleep"})) |-> Events(s, {"sleep"})[k].n]
EnteredExecutor(s) == Len(Events(s, {"enter"})) = 1
ExecutorEnded(s) == s.execRes.how # "pending"
\* What the executor itself did: its events, without the operations'.
ExecutorLog(s) ==
  Events(s, {"call", "resolve", "reject", "warn", "sleep", "wake",
             "return", "throw"})

(***************************************************************************)
(* C1: when an attempt fails with a rate limit error, callGeminiWithRetry  *)
(* retries up to maxRetries times.  Calls and suspensions alternate, the   *)
(* suspension after attempt i (0-based) is exactly initialDelay * 2^i, and *)
(* when every attempt has failed with a rate limit error the executor      *)
(* ends after exactly maxRetries attempts.                                 *)
(***************************************************************************)
C1_BackoffSchedule ==
  \A p \in Procs :
    LET s == st[p]
        cs == Events(s, {"call", "sleep"})
        rejects == Events(s, {"reject"})
    IN /\ \A j \in 1..Len(cs) :
            IF j % 2 = 1
            THEN cs[j].ev = "call" /\ cs[j].n = (j - 1) \div 2
            ELSE /\ cs[j].ev = "sleep"
                 /\ cs[j].n = s.initialDelay * (2 ^ ((j \div 2) - 1))
       /\ (/\ ExecutorEnded(s)
           /\ s.maxRetries >= 0
           /\ Events(s, {"resolve"}) = <<>>
           /\ \A j \in 1..Len(rejects) : rejects[j].k = 1)
          => /\ Calls(s) = s.maxRetries
             /\ Len(Sleeps(s)) = (IF s.maxRetries = 0 THEN 0 ELSE s.maxRetries - 1)

\* Three attempts all failed with rate limit errors, with suspensions of
\* 2 and 4 between them.
C1_Witness ==
  \E p \in Procs :
    /\ st[p].op = "callGeminiWithRetry"
    /\ ExecutorEnded(st[p])
    /\ st[p].maxRetries = 3
    /\ st[p].initialDelay = 2
    /\ Len(Events(st[p], {"reject"})) = 3
    /\ \A j \in 1..3 : Events(st[p], {"reject"})[j].k = 1
    /\ Sleeps(st[p]) = <<2, 4>>

(***************************************************************************)
(* C2: when the first attempt fails with an error that carries no rate     *)
(* limit signature, callGeminiWithRetry has made exactly one attempt, has  *)
(* not suspended, and has failed with the very error the upstream call     *)
(* produced.                                                               *)
(***************************************************************************)
C2_FatalErrorRaisedAsIs ==
  \A p \in Procs :
    LET s == st[p]
        rejects == Events(s, {"reject"})
    IN (/\ rejects # <<>>
        /\ rejects[1].n = 0
        /\ rejects[1].k = 0)
       => /\ ExecutorEnded(s)
          /\ Calls(s) = 1
          /\ Sleeps(s) = <<>>
          /\ s.execRes = Threw(s.up)

(***************************************************************************)
(* C3: when the upstream call of attempt k is fulfilled, the executor      *)
(* returns exactly the value it was fulfilled with, and nothing follows    *)
(* the fulfilment in the executor's history but the return: no further     *)
(* call, warning or suspension, whatever failures came before.             *)
(***************************************************************************)
C3_SuccessReturnsAtOnce ==
  \A p \in Procs :
    LET s == st[p]
        x == ExecutorLog(s)
    IN \A j \in 1..Len(x) :
         x[j].ev = "resolve"
         => /\ s.execRes = Returned(s.up)
            /\ s.pc = "done"
            /\ j + 1 = Len(x)
            /\ x[j + 1].ev = "return"
            /\ x[j].n < s.maxRetries
            /\ Calls(s) = x[j].n + 1
            /\ Len(Sleeps(s)) = x[j].n

\* The third attempt was fulfilled, after two rate limit failures.
C3_Witness ==
  \E p \in Procs :
    /\ st[p].op = "callGeminiWithRetry"
    /\ st[p].execRes.how = "returned"
    /\ st[p].execRes.val = Response(Str(TextProse))
    /\ Calls(st[p]) = 3
    /\ Len(Sleeps(st[p])) = 2

(***************************************************************************)
(* C4: when the final attempt (index maxRetries - 1) fails with a rate     *)
(* limit error, the executor fails at once: no warning and no suspension   *)
(* follows that failure, and the error raised is the very error of that    *)
(* last upstream call.                                                     *)
(***************************************************************************)
C4_FinalAttemptRaisesLastError ==
  \A p \in Procs :
    LET s == st[p]
        x == ExecutorLog(s)
    IN \A j \in 1..Len(x) :
         (x[j].ev = "reject" /\ x[j].k = 1 /\ x[j].n = s.maxRetries - 1)
         => /\ j + 1 = Len(x)
            /\ x[j + 1].ev = "throw"
            /\ s.execRes = Threw(s.up)
            /\ s.pc = "done"
            /\ Len(Sleeps(s)) = s.maxRetries - 1

\* Three rate limit failures with maxRetries 3: the third error object is
\* the one raised.
C4_Witness ==
  \E p \in Procs :
    /\ st[p].op = "callGeminiWithRetry"
    /\ st[p].maxRetries = 3
    /\ Calls(st[p]) = 3
    /\ st[p].execRes.how = "threw"
    /\ st[p].execRes.val.t = "error"
    /\ st[p].execRes.val.ref = 3
    /\ st[p].up \in {Thrown(e, 2) : e \in RateLimitErrors}

Operations ==
  {"getAiFeedback", "translateText", "getAiSummary", "checkAnswerConsistency"}

\* The credential is absent: unset, or the empty string.
CredentialAbsent == env \in {Undefined, Str(<<>>)}

(***************************************************************************)
(* C5: an invocation of one of the four operations never ends by           *)
(* throwing: while it awaits it has no result, and once it is done it has  *)
(* returned a value, whatever the credential and the upstream outcomes.    *)
(***************************************************************************)
C5_OperationsNeverThrow ==
  \A p \in Procs :
    st[p].op \in Operations
    => /\ st[p].res.how # "threw"
       /\ st[p].pc = "done" <=> st[p].res.how = "returned"
       /\ st[p].pc \in {"call", "sleep", "done"}

\* checkAnswerConsistency got a text that is no JSON and returned a value;
\* getAiFeedback's executor failed and it returned a value.
C5_Witness ==
  \E p \in Procs :
    \/ /\ st[p].op = "checkAnswerConsistency"
       /\ st[p].execRes = Returned(Response(Str(TextTruncated)))
       /\ st[p].res.how = "returned"
    \/ /\ st[p].op = "getAiFeedback"
       /\ st[p].execRes.how = "threw"
       /\ st[p].res.how = "returned"

\* The declared responseSchema: an object, consistent a boolean and
\* required, reason a string if present.
ConformsToSchema(v) ==
  /\ v.t = "object"
  /\ Member(v, "consistent") # <<>>
  /\ Member(v, "consistent")[1].t = "boolean"
  /\ Member(v, "reason") # <<>> => Member(v, "reason")[1].t = "string"

(***************************************************************************)
(* C6: checkAnswerConsistency returns exactly {consistent: true} on any    *)
(* failure: the executor failed, the response text is no JSON, or the      *)
(* parsed text does not conform to the schema (an object whose consistent  *)
(* is a boolean and whose reason, if any, is a string).                    *)
(***************************************************************************)
C6_FailOpenOnAnyFailure ==
  \A p \in Procs :
    LET s == st[p]
    IN (/\ s.op = "checkAnswerConsistency"
        /\ s.pc = "done"
        /\ EnteredExecutor(s)
        /\ \/ s.execRes.how = "threw"
           \/ ~ConformsToSchema(JSONParse(s.execRes.val.text)))
       => s.res = Returned(Obj(<<<<"consistent", Bool(TRUE)>>>>))

(***************************************************************************)
(* C7: with an absent credential checkAnswerConsistency returns            *)
(* {consistent: true} at once: the executor is not entered and no upstream *)
(* call is made.                                                           *)
(***************************************************************************)
C7_MissingKeyFailsOpen ==
  \A p \in Procs :
    (st[p].op = "checkAnswerConsistency" /\ CredentialAbsent)
    => /\ st[p].pc = "done"
       /\ st[p].res = Returned(Obj(<<<<"consistent", Bool(TRUE)>>>>))
       /\ ~EnteredExecutor(st[p])
       /\ Calls(st[p]) = 0

\* The key is the empty string and the operation has returned.
C7_Witness ==
  \E p \in Procs :
    /\ st[p].op = "checkAnswerConsistency"
    /\ env = Str(<<>>)
    /\ st[p].pc = "done"

(***************************************************************************)
(* C8: when the executor succeeds with a well-formed structured response,  *)
(* checkAnswerConsistency returns it as parsed: consistent=false with its  *)
(* reason stays consistent=false with the same reason, and                 *)
(* consistent=true without a reason stays so.                              *)
(***************************************************************************)
C8_StructuredResponseVerbatim ==
  \A p \in Procs :
    LET s == st[p]
    IN (s.op = "checkAnswerConsistency" /\ s.execRes.how = "returned")
       => /\ s.up = Response(Str(TextContradiction))
             => s.res = Returned(Obj(<<<<"consistent", Bool(FALSE)>>,
                                       <<"reason", Str(<<"dates differ">>)>>>>))
          /\ s.up = Response(Str(TextConsistent))
             => s.res = Returned(Obj(<<<<"consistent", Bool(TRUE)>>>>))

\* A contradiction was reported on the second attempt and returned.
C8_Witness ==
  \E p \in Procs :
    /\ st[p].op = "checkAnswerConsistency"
    /\ st[p].pc = "done"
    /\ Calls(st[p]) = 2
    /\ st[p].res.val.t = "object"
    /\ Member(st[p].res.val, "consistent") = <<Bool(FALSE)>>
    /\ Member(st[p].res.val, "reason") = <<Str(<<"dates differ">>)>>

(***************************************************************************)
(* C9: getAiFeedback returns the configuration-missing text without any    *)
(* upstream call when the credential is absent; with a credential it       *)
(* returns the temporary-unavailability text when the executor fails, and  *)
(* the response text unmodified when it succeeds.                          *)
(***************************************************************************)
C9_FeedbackResults ==
  \A p \in Procs :
    LET s == st[p]
    IN s.op = "getAiFeedback"
       => /\ CredentialAbsent
             => /\ s.res = Returned(Str(<<"API Key chua duoc cau hinh. Vui long dat VITE_GEMINI_API_KEY trong .env.local">>))
                /\ Calls(s) = 0
                /\ ~EnteredExecutor(s)
          /\ ~CredentialAbsent
             => /\ EnteredExecutor(s)
                /\ s.execRes.how = "threw"
                   => s.res = Returned(Str(<<"AI tam thoi khong phan hoi. Vui long thu lai sau 1 phut.">>))
                /\ s.execRes.how = "returned"
                   => s.res = Returned(s.up.text)

\* All five attempts failed with rate limit errors and the fallback text
\* was returned.
C9_Witness ==
  \E p \in Procs :
    /\ st[p].op = "getAiFeedback"
    /\ Calls(st[p]) = 5
    /\ st[p].execRes.how = "threw"
    /\ st[p].res = Returned(FeedbackUnavailable)

(***************************************************************************)
(* C10: translateText returns null without any upstream call when the      *)
(* credential is absent, and null when the executor fails; what it returns *)
(* is not null only when an upstream attempt succeeded, and is then that   *)
(* response's text.                                                        *)
(***************************************************************************)
C10_TranslateResults ==
  \A p \in Procs :
    LET s == st[p]
    IN s.op = "translateText"
       => /\ CredentialAbsent
             => s.res = Returned(Null) /\ Calls(s) = 0 /\ ~EnteredExecutor(s)
          /\ s.execRes.how = "threw" => s.res = Returned(Null)
          /\ (s.pc = "done" /\ s.res.val # Null)
             => /\ Events(s, {"resolve"}) # <<>>
                /\ s.up.t = "response"
                /\ s.res = Returned(s.up.text)

\* A translation returned on the second attempt; elsewhere null after a
\* fatal error.
C10_Witness ==
  \E p \in Procs :
    /\ st[p].op = "translateText"
    /\ st[p].pc = "done"
    /\ \/ st[p].res = Returned(Str(TextProse)) /\ Calls(st[p]) = 2
       \/ st[p].res = Returned(Null) /\ st[p].up = Thrown(ErrServer500, 0)

(***************************************************************************)
(* C11: getAiSummary returns the "not configured" text, not null, and      *)
(* makes no upstream call when the credential is absent; with a credential *)
(* it returns null, not that text, when the executor fails.                *)
(***************************************************************************)
C11_SummaryResults ==
  \A p \in Procs :
    LET s == st[p]
    IN s.op = "getAiSummary"
       => /\ CredentialAbsent
             => /\ s.res = Returned(Str(<<"API Key chua duoc cau hinh.">>))
                /\ Calls(s) = 0
                /\ ~EnteredExecutor(s)
          /\ ~CredentialAbsent
             => /\ EnteredExecutor(s)
                /\ s.execRes.how = "threw" => s.res = Returned(Null)
                /\ s.execRes.how = "returned" => s.res = Returned(s.up.text)

\* The executor failed on a fatal error after one retry and null was
\* returned.
C11_Witness ==
  \E p \in Procs :
    /\ st[p].op = "getAiSummary"
    /\ st[p].execRes.how = "threw"
    /\ Calls(st[p]) = 2
    /\ st[p].res = Returned(Null)

(***************************************************************************)
(* C12: within one invocation of the executor the attempts are sequential: *)
(* at most one upstream call is unsettled at any moment, and attempt i+1   *)
(* is issued only after attempt i was rejected, its warning logged, its    *)
(* suspension started and the suspension's timer fired.                    *)
(***************************************************************************)
C12_AttemptsSequential ==
  \A p \in Procs :
    LET s == st[p]
        x == ExecutorLog(s)
        inFlight == Calls(s) - Len(Events(s, {"resolve", "reject"}))
    IN /\ inFlight \in {0, 1}
       /\ inFlight = 1 <=> s.pc = "call"
       /\ \A j \in 1..Len(x) :
            (x[j].ev = "call" /\ x[j].n = 0) => j = 1
       /\ \A j \in 1..Len(x) :
            (x[j].ev = "call" /\ x[j].n > 0)
            => /\ j > 5
               /\ x[j - 1].ev = "wake"
               /\ x[j - 2].ev = "sleep"
               /\ x[j - 3].ev = "warn"
               /\ x[j - 4].ev = "reject"
               /\ x[j - 4].n = x[j].n - 1
               /\ x[j - 5].ev = "call"
               /\ x[j - 5].n = x[j].n - 1

\* The third attempt is in flight, after two suspensions.
C12_Witness ==
  \E p \in Procs :
    /\ st[p].pc = "call"
    /\ st[p].i = 2
    /\ Len(Events(st[p], {"wake"})) = 2

(***************************************************************************)
(* C16: getAiSummary selects its instruction by type: for one target       *)
(* language the instructions of 'concise', 'detailed' and 'keypoints' are  *)
(* pairwise distinct (the instruction built differs from that of each      *)
(* other type), and a call that leaves type out builds exactly the         *)
(* instruction of 'concise'.                                               *)
(***************************************************************************)
C16_InstructionByType ==
  \A p \in Procs :
    LET s == st[p]
        given == IF s.typeArg = Undefined THEN Concise ELSE s.typeArg
    IN (s.op = "getAiSummary" /\ EnteredExecutor(s))
       => /\ s.instruction.t = "string"
          /\ s.instruction.s # <<>>
          /\ s.instruction = Instruction(given, s.targetLangName)
          /\ s.typeArg = Undefined
             => s.instruction = Instruction(Concise, s.targetLangName)
          /\ \A other \in {Concise, Detailed, Keypoints} \ {given} :
               s.instruction # Instruction(other, s.targetLangName)

\* A call with type 'keypoints' and a call without type have each built
\* their instruction.
C16_Witness ==
  \E p \in Procs :
    /\ st[p].op = "getAiSummary"
    /\ EnteredExecutor(st[p])
    /\ st[p].typeArg = Keypoints
    /\ st[p].instruction.s[1] =
         "You are a key points extraction tool. List the most important 3 to 5 key points. You MUST respond entirely in "

(***************************************************************************)
(* C14: the executor never swallows an error.  It returns a value only     *)
(* when an attempt's upstream call was fulfilled with that value; when no  *)
(* attempt was fulfilled (maxRetries >= 1) it ends by throwing; and every  *)
(* rejected attempt is followed either by a retry (warning and             *)
(* suspension) or by the throw of that attempt's own error.                *)
(***************************************************************************)
C14_NeverSwallows ==
  \A p \in Procs :
    LET s == st[p]
        x == ExecutorLog(s)
    IN /\ s.execRes.how = "returned"
          => /\ Events(s, {"resolve"}) # <<>>
             /\ s.execRes.val = s.up
       /\ (ExecutorEnded(s) /\ s.maxRetries >= 1 /\ Events(s, {"resolve"}) = <<>>)
          => s.execRes.how = "threw"
       /\ \A j \in 1..Len(x) :
            x[j].ev = "reject"
            => /\ j < Len(x)
               /\ \/ x[j + 1].ev = "warn"
                  \/ /\ x[j + 1].ev = "throw"
                     /\ s.execRes = Threw(s.up)

(***************************************************************************)
(* C17: called with maxRetries 0 or less, the executor makes no attempt    *)
(* and no suspension and ends at once by throwing its undefined lastError. *)
(***************************************************************************)
C17_NoAttemptsWithoutRetries ==
  \A p \in Procs :
    (EnteredExecutor(st[p]) /\ st[p].maxRetries <= 0)
    => /\ st[p].pc = "done"
       /\ Calls(st[p]) = 0
       /\ Sleeps(st[p]) = <<>>
       /\ Events(st[p], {"warn"}) = <<>>
       /\ st[p].execRes = Threw(Undefined)
       /\ st[p].res = Threw(Undefined)

\* callGeminiWithRetry(apiCall, 0, ...) has ended.
C17_Witness ==
  \E p \in Procs :
    /\ st[p].op = "callGeminiWithRetry"
    /\ st[p].maxRetries = 0
    /\ st[p].res.how = "threw"

(***************************************************************************)
(* C18: the executor logs exactly one warning per retry and nothing else.  *)
(* As claimed: when the executor has ended, the warnings are as many as    *)
(* the suspensions, which are the attempts made minus one.                 *)
(***************************************************************************)
C18_WarningsAreAttemptsMinusOne ==
  \A p \in Procs :
    ExecutorEnded(st[p])
    => /\ Len(Events(st[p], {"warn"})) = Len(Sleeps(st[p]))
       /\ Len(Sleeps(st[p])) = Calls(st[p]) - 1

(***************************************************************************)
(* C18, amended: the warnings are as many as the suspensions; when the     *)
(* executor has ended after at least one attempt they are the attempts     *)
(* minus one (none when no attempt was made).  Each warning comes right    *)
(* before its suspension, carries that suspension's delay and the attempt  *)
(* number, and follows a rate limit failure of an attempt that is not the  *)
(* final one; while the executor runs nothing else is logged.              *)
(***************************************************************************)
C18_OneWarningPerRetry ==
  \A p \in Procs :
    LET s == st[p]
        x == ExecutorLog(s)
    IN /\ Len(Events(s, {"warn"})) = Len(Sleeps(s))
       /\ ExecutorEnded(s)
          => Len(Sleeps(s)) = (IF Calls(s) >= 1 THEN Calls(s) - 1 ELSE 0)
       /\ \A j \in 1..Len(x) :
            /\ x[j].ev = "warn"
               => /\ j > 1 /\ j < Len(x)
                  /\ x[j + 1].ev = "sleep"
                  /\ x[j + 1].n = x[j].n
                  /\ x[j].n = s.initialDelay * (2 ^ (x[j].k - 1))
                  /\ x[j - 1].ev = "reject"
                  /\ x[j - 1].k = 1
                  /\ x[j - 1].n = x[j].k - 1
                  /\ x[j - 1].n < s.maxRetries - 1
            /\ x[j].ev = "sleep" => j > 1 /\ x[j - 1].ev = "warn"
       /\ \A j \in 1..Len(s.log) :
            s.log[j].ev = "console.error"
            => j = Len(s.log) /\ (ExecutorEnded(s) \/ ~EnteredExecutor(s))

\* The executor has ended after three attempts and two warnings.
C18_Witness ==
  \E p \in Procs :
    /\ ExecutorEnded(st[p])
    /\ Calls(st[p]) = 3
    /\ Len(Events(st[p], {"warn"})) = 2

(***************************************************************************)
(* C19: an error without rate limit signature at attempt k >= 1, after k   *)
(* rate limit failures, ends the executor at once: k+1 attempts were made, *)
(* the k suspensions initialDelay*2^0 .. initialDelay*2^(k-1) have         *)
(* occurred, none follows the fatal error, and the error raised is that    *)
(* fatal error.                                                            *)
(***************************************************************************)
C19_FatalAfterRetries ==
  \A p \in Procs :
    LET s == st[p]
        x == ExecutorLog(s)
    IN \A j \in 1..Len(x) :
         (x[j].ev = "reject" /\ x[j].k = 0 /\ x[j].n >= 1)
         => /\ j + 1 = Len(x)
            /\ x[j + 1].ev = "throw"
            /\ Calls(s) = x[j].n + 1
            /\ Calls(s) > 1
            /\ Sleeps(s) = [m \in 1..x[j].n |-> s.initialDelay * (2 ^ (m - 1))]
            /\ s.execRes = Threw(s.up)

RECURSIVE Sum(_)
Sum(seq) == IF seq = <<>> THEN 0 ELSE Head(seq) + Sum(Tail(seq))

(***************************************************************************)
(* C20: each of the four operations calls the executor with the default    *)
(* policy (maxRetries 5, initialDelay 5000): one invocation issues at most *)
(* 5 upstream calls and at most 4 suspensions of at most 75000 ms in       *)
(* total, and none of either when the credential is absent.                *)
(***************************************************************************)
C20_DefaultPolicy ==
  \A p \in Procs :
    LET s == st[p]
    IN s.op \in Operations
       => /\ EnteredExecutor(s)
             => Events(s, {"enter"})[1] = Ev("enter", 5, 5000)
          /\ Calls(s) <= 5
          /\ Len(Sleeps(s)) <= 4
          /\ Sum(Sleeps(s)) <= 75000
          /\ \A k \in 1..Len(Sleeps(s)) : Sleeps(s)[k] = 5000 * (2 ^ (k - 1))
          /\ CredentialAbsent => Calls(s) = 0 /\ Sleeps(s) = <<>>

\* Five calls were issued, with suspensions of 75000 ms in total.
C20_Witness ==
  \E p \in Procs :
    /\ st[p].op \in Operations
    /\ Calls(st[p]) = 5
    /\ Sum(Sleeps(st[p])) = 75000

(***************************************************************************)
(* The same invocations, where every upstream call eventually settles and  *)
(* every backoff timer eventually fires.                                   *)
(***************************************************************************)
Fairness ==
  \A p \in Solo :
    /\ WF_vars(UpstreamResolves(p, Responses) \/ UpstreamRejects(p, Rejections))
    /\ WF_vars(TimerFires(p))

SpecLive == Spec /\ Fairness

(***************************************************************************)
(* C15: every invocation eventually finishes.  When upstream calls settle  *)
(* and timers fire, an invocation that has started is eventually done,     *)
(* its executor having returned or thrown, and at no time has it made more *)
(* than maxRetries attempts.                                               *)
(***************************************************************************)
C15_EventuallyFinishes ==
  /\ [](\A p \in Procs :
          /\ Calls(st[p]) <= (IF st[p].maxRetries > 0 THEN st[p].maxRetries ELSE 0)
          /\ st[p].pc = "done" => st[p].res.how # "pending")
  /\ \A p \in Procs : (st[p].pc # "idle") ~> (st[p].pc = "done")

\* An invocation is done after all of its five attempts.
C15_Witness ==
  \E p \in Procs :
    /\ st[p].pc = "done"
    /\ Calls(st[p]) = 5
    /\ Len(Events(st[p], {"wake"})) = 4

(***************************************************************************)
(* Concurrent invocations: every invocation of Procs runs, their steps     *)
(* interleaved in any order, and the credential of the environment may be  *)
(* set or unset between any two steps (the program only reads it).  The    *)
(* inputs are one rate limit error, one fatal error and one response; the  *)
(* invocations are of translateText (the operations differ only in what    *)
(* they return) and of callGeminiWithRetry with two attempts.              *)
(***************************************************************************)
ConcCredentials == {Undefined, Str(<<"AIza-key">>)}
ConcRejections == {ErrStatus429, ErrServer500}
ConcResponses == {Response(Str(TextProse))}
ConcRetryCounts == {2}
ConcInitialDelays == {1}

Configure(credentials) ==
  /\ env' \in credentials \ {env}
  /\ UNCHANGED st

NextConc ==
  \/ Configure(ConcCredentials)
  \/ \E p \in Procs :
       \/ translateText(p)
       \/ CallExecutor(p, ConcRetryCounts, ConcInitialDelays)
       \/ UpstreamResolves(p, ConcResponses)
       \/ UpstreamRejects(p, ConcRejections)
       \/ TimerFires(p)

InitConc ==
  /\ env \in ConcCredentials
  /\ st = [p \in Procs |-> Idle]

SpecConc == InitConc /\ [][NextConc]_vars

\* What an invocation returns or throws, from its own credential reading
\* and its own upstream outcomes alone.
OwnResult(s) ==
  IF s.op = "callGeminiWithRetry"
  THEN IF Events(s, {"resolve"}) # <<>> THEN Returned(s.up) ELSE Threw(s.up)
  ELSE IF Falsy(s.apiKey) THEN Returned(Null)
  ELSE IF Events(s, {"resolve"}) # <<>> THEN Returned(s.up.text)
  ELSE Returned(Null)

(***************************************************************************)
(* C13: concurrent invocations share no mutable state.  Under every        *)
(* interleaving a step changes one invocation only and never the           *)
(* credential; an invocation reads the credential as it is when it starts; *)
(* its attempt counter, backoff schedule, lastError and result are those   *)
(* its own credential reading and its own upstream outcomes give; and an   *)
(* operation that read a credential has entered the executor and issued    *)
(* its upstream call, whatever other invocations missed or failed.         *)
(***************************************************************************)
C13_OwnStateOnly ==
  \A p \in Procs :
    LET s == st[p]
        settled == Events(s, {"resolve", "reject"})
    IN s.pc # "idle"
       => /\ s.pc \in {"call", "sleep"} => s.i = Calls(s) - 1
          /\ Sleeps(s) = [k \in 1..Len(Sleeps(s)) |-> s.initialDelay * (2 ^ (k - 1))]
          /\ (settled # <<>> /\ settled[Len(settled)].ev = "reject")
             => s.lastError = s.up
          /\ s.pc = "done" => s.res = OwnResult(s)
          /\ (s.op \in Operations /\ ~Falsy(s.apiKey))
             => EnteredExecutor(s) /\ Calls(s) >= 1
          /\ (s.op \in Operations /\ Falsy(s.apiKey))
             => ~EnteredExecutor(s) /\ Calls(s) = 0

C13_StepsAreLocal ==
  /\ env' # env => st' = st
  /\ \A p \in Procs :
       st'[p] # st[p]
       => /\ env' = env
          /\ \A q \in Procs \ {p} : st'[q] = st[q]
          /\ (st[p].pc = "idle" /\ st'[p].op \in Operations)
             => st'[p].apiKey = env

C13_NoSharedState == []C13_OwnStateOnly /\ [][C13_StepsAreLocal]_vars

\* One invocation of translateText has returned for lack of a credential
\* or after a failure, while another one, that read a credential, is
\* suspended before its second attempt.
C13_Witness ==
  \E p, q \in Procs :
    /\ p # q
    /\ st[p].op = "translateText"
    /\ st[p].pc = "done"
    /\ Falsy(st[p].apiKey) \/ st[p].execRes.how = "threw"
    /\ st[q].op \in Operations
    /\ ~Falsy(st[q].apiKey)
    /\ st[q].pc = "sleep"
    /\ st[q].i = 1

====
